---------------------------- MODULE Spec2Model ----------------------------
(***************************************************************************)
(* Model of modeltrees/_nodes.py: the TreeNode record and the Split rule   *)
(* with its partition operator Split._apply_split.                         *)
(*                                                                         *)
(* Arrays follow the semantics of the numeric-array library the code       *)
(* indexes: X is a 2-D array with a shape (n_samples, n_features) and a    *)
(* list of rows, y and boolean masks are 1-D arrays (sequences).  Feature  *)
(* values are floating point: a value is either a number [num |-> i] or    *)
(* the not-a-number value [nan |-> TRUE], for which every ordered          *)
(* comparison is false.                                                    *)
(***************************************************************************)
EXTENDS Integers, Sequences, FiniteSets

VARIABLES
    split,      \* the Split object: [split_feature, split_threshold]
    X,          \* the feature matrix the driver holds
    y,          \* the target vector the driver holds
    retX,       \* outcome of split._apply_split(X)
    retXY,      \* outcome of split._apply_split(X, y)
    retSub,     \* outcome of re-applying split to one subset of retX
    ncalls,     \* number of _apply_split calls made so far
    nodes,      \* the TreeNode objects constructed so far, by identity
    calls       \* the constructor calls made so far: arguments and outcome

vars == <<split, X, y, retX, retXY, retSub, ncalls, nodes, calls>>

splitVars == <<split, X, y, retX, retXY, retSub, ncalls>>
nodeVars == <<nodes, calls>>

-----------------------------------------------------------------------------
(* Bounds of the model *)

\* a feature matrix has at most MaxCells entries (n_samples * n_features)
MaxCells == 4
\* at most MaxCalls calls of _apply_split are made
MaxCalls == 3
\* at most MaxNodes TreeNode objects are constructed
MaxNodes == 3

-----------------------------------------------------------------------------
(* Values *)

Num(i) == [num |-> i]
NaN == [nan |-> TRUE]
IsNaN(v) == "nan" \in DOMAIN v

FeatureValues == {Num(0), Num(1), NaN}
\* split_threshold is documented as an int
Thresholds == {Num(0), Num(1)}

\* the i-th target is 10 * i: pairwise distinct, so that the row a target
\* belongs to can be read off the target
Targets(len) == [i \in 1..len |-> 10 * i]

Shapes ==
    {s \in (0..MaxCells) \X (0..MaxCells) : s[1] * s[2] <= MaxCells}

Matrices ==
    UNION {{[shape |-> s, data |-> d] :
                d \in [1..s[1] -> [1..s[2] -> FeatureValues]]} : s \in Shapes}

n_samples(A) == A.shape[1]
n_features(A) == A.shape[2]

\* outcomes of a call
Pending == [pending |-> TRUE]
Raise(exc) == [raised |-> exc]
Return(v) == [returned |-> v]
IsPending(r) == "pending" \in DOMAIN r
Raised(r) == "raised" \in DOMAIN r
Returned(r) == "returned" \in DOMAIN r

\* an optional argument
None == [none |-> TRUE]
Some(v) == [some |-> v]
IsNone(a) == "none" \in DOMAIN a

-----------------------------------------------------------------------------
(* Array operations used by Split._apply_split *)

\* an integer index f is accepted on an axis of length m iff -m <= f < m
IndexInBounds(f, m) == -m <= f /\ f < m

\* a negative index counts from the end of the axis (0-based result)
WrapIndex(f, m) == IF f < 0 THEN f + m ELSE f

\* X[:, f]
Column(A, f) ==
    [i \in 1..n_samples(A) |-> A.data[i][WrapIndex(f, n_features(A)) + 1]]

\* variant: the comparison is strict
LessThan(a, t) == ~IsNaN(a) /\ ~IsNaN(t) /\ a.num < t.num

\* a <= t on floating point values: false when either side is NaN
LessEqual(a, t) == ~IsNaN(a) /\ ~IsNaN(t) /\ a.num <= t.num

\* column <= threshold, elementwise
Compare(col, t) == [i \in 1..Len(col) |-> LessEqual(col[i], t)]

\* variant: ~ applied to plain booleans, whose results are all truthy
InvertTruthy(mask) == [i \in 1..Len(mask) |-> TRUE]

\* ~mask
Invert(mask) == [i \in 1..Len(mask) |-> ~mask[i]]

\* variant: the positions are listed from the last to the first
RECURSIVE NonzeroDescending(_)
NonzeroDescending(mask) ==
    IF Len(mask) = 0 THEN <<>>
    ELSE LET rest == NonzeroDescending(SubSeq(mask, 1, Len(mask) - 1))
         IN  IF mask[Len(mask)] THEN <<Len(mask)>> \o rest ELSE rest

\* the positions at which a boolean mask is true, ascending
RECURSIVE Nonzero(_)
Nonzero(mask) ==
    IF Len(mask) = 0 THEN <<>>
    ELSE LET front == Nonzero(SubSeq(mask, 1, Len(mask) - 1))
         IN  IF mask[Len(mask)] THEN Append(front, Len(mask)) ELSE front

\* variant: a mask shorter than the axis is accepted
MaskFitsPrefix(mask, len) == Len(mask) <= len

\* a boolean mask indexes an axis only if it is as long as the axis
MaskFits(mask, len) == Len(mask) = len

\* the rows of A at the positions idx
RowsAt(A, idx) ==
    [shape |-> <<Len(idx), n_features(A)>>,
     data |-> [k \in 1..Len(idx) |-> A.data[idx[k]]]]

\* variant: a mask that selects nothing falls back to the whole array
TakeRowsOrAll(A, mask) ==
    IF Nonzero(mask) = <<>> THEN A ELSE RowsAt(A, Nonzero(mask))

\* variant: the subset is rebuilt from the list of selected rows, which
\* loses the columns when no row is selected
TakeRowsFromList(A, mask) ==
    IF Nonzero(mask) = <<>> THEN [shape |-> <<0, 0>>, data |-> <<>>]
    ELSE RowsAt(A, Nonzero(mask))

\* X[mask, :]: a new array with the rows selected by the mask
TakeRows(A, mask) == RowsAt(A, Nonzero(mask))

\* variant: the first items of v, as many as the mask selects
TakeItemsPrefix(v, mask) == SubSeq(v, 1, Len(Nonzero(mask)))

\* y[mask]: a new array with the items selected by the mask
TakeItems(v, mask) ==
    LET idx == Nonzero(mask)
    IN  [k \in 1..Len(idx) |-> v[idx[k]]]

-----------------------------------------------------------------------------
(* class Split *)

Split(split_feature, split_threshold) ==
    [split_feature |-> split_feature, split_threshold |-> split_threshold]

\* Split._apply_split(self, X, y=None); yarg is None or Some(target vector)
_apply_split(self, A, yarg) ==
    IF ~IndexInBounds(self.split_feature, n_features(A))
    THEN Raise("IndexError")
    ELSE LET split_filter ==
                 Compare(Column(A, self.split_feature), self.split_threshold)
         IN  IF IsNone(yarg)
             THEN Return(<<TakeRows(A, split_filter),
                           TakeRows(A, Invert(split_filter))>>)
             ELSE IF ~MaskFits(split_filter, Len(yarg.some))
             THEN Raise("IndexError")
             ELSE Return(<<
                 <<TakeRows(A, split_filter),
                   TakeItems(yarg.some, split_filter)>>,
                 <<TakeRows(A, Invert(split_filter)),
                   TakeItems(yarg.some, Invert(split_filter))>> >>)

\* variant: the rows of the feature matrix are reversed in place
ArgsAfterCallReversed(A, v) ==
    <<[A EXCEPT !.data = [i \in 1..Len(A.data) |->
                             A.data[Len(A.data) + 1 - i]]], v>>

\* the arguments after a call: _apply_split stores into neither array
ArgsAfterCall(A, v) == <<A, v>>


-----------------------------------------------------------------------------
(* class TreeNode *)

\* a constructor argument is omitted or given
Omitted == [omitted |-> TRUE]
Given(v) == [given |-> v]
Default(arg, d) == IF "omitted" \in DOMAIN arg THEN d ELSE arg.given

\* variant: children defaults to an empty list
TreeNodeInitListDefault(depth, estimator, children, split_) ==
    Return([depth |-> Default(depth, 0),
            estimator |-> Default(estimator, None),
            children |-> Default(children, Some(<<>>)),
            split |-> Default(split_, None)])

\* variant: children and split must be given together
TreeNodeInitValidated(depth, estimator, children, split_) ==
    IF (children = Omitted) # (split_ = Omitted)
    THEN Raise("ValueError")
    ELSE Return([depth |-> Default(depth, 0),
                 estimator |-> Default(estimator, None),
                 children |-> Default(children, None),
                 split |-> Default(split_, None)])

\* TreeNode.__init__(self, depth=0, estimator=None, children=None, split=None)
\* stores its four arguments as they are and returns normally
TreeNodeInit(depth, estimator, children, split_) ==
    Return([depth |-> Default(depth, 0),
            estimator |-> Default(estimator, None),
            children |-> Default(children, None),
            split |-> Default(split_, None)])

\* lengths of the children lists a caller passes
Arities == {0, 1, 2}

\* lists of already constructed nodes, referred to by identity
ChildLists(known) ==
    UNION {[1..k -> known] : k \in Arities}

\* depth and estimator are passed together or omitted together
ScalarArgs == {<<Omitted, Omitted>>, <<Given(1), Given(Some("model"))>>}
SplitArgs == {Omitted, Given(Some(Split(0, Num(0))))}
ChildrenArgs(known) == {Omitted} \cup {Given(Some(c)) : c \in ChildLists(known)}

-----------------------------------------------------------------------------
(* The driver working with one Split *)

FeatureIndices(A) == (-(n_features(A) + 1))..n_features(A)
TargetLengths(A) == {k \in (n_samples(A) - 1)..(n_samples(A) + 1) : k >= 0}

NoMatrix == [shape |-> <<0, 0>>, data |-> <<>>]

InitSplit ==
    /\ X \in Matrices
    /\ y \in {Targets(k) : k \in TargetLengths(X)}
    /\ split \in {Split(f, t) : f \in FeatureIndices(X), t \in Thresholds}
    /\ retX = Pending
    /\ retXY = Pending
    /\ retSub = Pending
    /\ ncalls = 0
    /\ nodes = <<>>
    /\ calls = <<>>

\* split._apply_split(X)
ApplySplitX ==
    /\ ncalls < MaxCalls
    /\ ncalls' = ncalls + 1
    /\ retX' = _apply_split(split, X, None)
    /\ X' = ArgsAfterCall(X, y)[1]
    /\ y' = ArgsAfterCall(X, y)[2]
    /\ UNCHANGED <<split, retXY, retSub, nodes, calls>>

\* split._apply_split(X, y)
ApplySplitXY ==
    /\ ncalls < MaxCalls
    /\ ncalls' = ncalls + 1
    /\ retXY' = _apply_split(split, X, Some(y))
    /\ X' = ArgsAfterCall(X, y)[1]
    /\ y' = ArgsAfterCall(X, y)[2]
    /\ UNCHANGED <<split, retX, retSub, nodes, calls>>

\* split._apply_split(subsets[side]) on a subset returned by _apply_split(X)
ReSplit(side) ==
    /\ ncalls < MaxCalls
    /\ ncalls' = ncalls + 1
    /\ Returned(retX)
    /\ LET sub == retX.returned[side]
       IN  /\ retSub' = [side |-> side, ret |-> _apply_split(split, sub, None)]
           /\ retX' = [retX EXCEPT
                         !.returned[side] = ArgsAfterCall(sub, <<>>)[1]]
    /\ UNCHANGED <<split, X, y, retXY, nodes, calls>>

NextSplit ==
    \/ ApplySplitX
    \/ ApplySplitXY
    \/ \E side \in {1, 2} : ReSplit(side)

SpecSplit == InitSplit /\ [][NextSplit]_vars

-----------------------------------------------------------------------------
(* The driver constructing TreeNode objects *)

InitNode ==
    /\ X = NoMatrix
    /\ y = <<>>
    /\ split = Split(0, Num(0))
    /\ retX = Pending
    /\ retXY = Pending
    /\ retSub = Pending
    /\ ncalls = 0
    /\ nodes = <<>>
    /\ calls = <<>>

\* TreeNode(depth, estimator, children, split)
NewTreeNode(depth, estimator, children, split_) ==
    /\ Len(calls) < MaxNodes
    /\ LET r == TreeNodeInit(depth, estimator, children, split_)
           args == [depth |-> depth, estimator |-> estimator,
                    children |-> children, split |-> split_]
       IN  IF Returned(r)
           THEN /\ nodes' = Append(nodes, r.returned)
                /\ calls' = Append(calls,
                                [args |-> args, ret |-> Return(Len(nodes) + 1)])
           ELSE /\ nodes' = nodes
                /\ calls' = Append(calls, [args |-> args, ret |-> r])
    /\ UNCHANGED splitVars

NextNode ==
    \E scalars \in ScalarArgs,
       children \in ChildrenArgs(1..Len(nodes)), split_ \in SplitArgs :
        NewTreeNode(scalars[1], scalars[2], children, split_)

SpecNode == InitNode /\ [][NextNode]_vars

-----------------------------------------------------------------------------
(* Vocabulary of the properties, stated on the values alone *)

\* IEEE comparisons of feature values
Le(a, b) == "num" \in DOMAIN a /\ "num" \in DOMAIN b /\ a.num <= b.num
Gt(a, b) == "num" \in DOMAIN a /\ "num" \in DOMAIN b /\ a.num > b.num
Eq(a, b) == "num" \in DOMAIN a /\ "num" \in DOMAIN b /\ a.num = b.num

f == split.split_feature
t == split.split_threshold
n == n_samples(X)
m == n_features(X)

\* the 1-based column of X the split inspects, for an index the array accepts
ValidColumn == -m <= f /\ f <= m - 1
SplitCol == IF f >= 0 THEN f + 1 ELSE m + f + 1

LeftRows == {i \in 1..n : Le(X.data[i][SplitCol], t)}
RightRows == (1..n) \ LeftRows

\* the k-th smallest element of a set of row numbers
Kth(S, k) == CHOOSE i \in S : Cardinality({j \in S : j < i}) = k - 1
SubSequence(seq, S) == [k \in 1..Cardinality(S) |-> seq[Kth(S, k)]]

Count(seq, e) == Cardinality({i \in 1..Len(seq) : seq[i] = e})
Range(seq) == {seq[i] : i \in 1..Len(seq)}
Zip(a, b) == [i \in 1..Len(a) |-> <<a[i], b[i]>>]

\* every element of whole occurs as often in whole as in left and right together
SplitsInto(whole, left, right) ==
    /\ Len(left) + Len(right) = Len(whole)
    /\ \A e \in Range(whole) \cup Range(left) \cup Range(right) :
           Count(whole, e) = Count(left, e) + Count(right, e)

WellFormed(A, cols) ==
    /\ n_features(A) = cols
    /\ n_samples(A) = Len(A.data)
    /\ \A k \in 1..Len(A.data) : Len(A.data[k]) = cols

Empty(A) == n_samples(A) = 0 /\ A.data = <<>>

LeftX == retX.returned[1]
RightX == retX.returned[2]
LeftXY == retXY.returned[1]
RightXY == retXY.returned[2]

-----------------------------------------------------------------------------
(* C1: partition completeness.  Whenever _apply_split returns, it returns  *)
(* exactly two subsets, their row counts sum to the row count of X, and    *)
(* every row of X occurs in the two subsets together exactly as often as   *)
(* in X; with y, the same holds for the two target subsets and for the     *)
(* (row, target) pairs.                                                    *)
C1_PartitionComplete ==
    /\ Returned(retX) =>
        /\ Len(retX.returned) = 2
        /\ n_samples(LeftX) + n_samples(RightX) = n
        /\ SplitsInto(X.data, LeftX.data, RightX.data)
    /\ Returned(retXY) =>
        /\ Len(retXY.returned) = 2
        /\ Len(LeftXY) = 2 /\ Len(RightXY) = 2
        /\ n_samples(LeftXY[1]) + n_samples(RightXY[1]) = n
        /\ SplitsInto(y, LeftXY[2], RightXY[2])
        /\ Len(LeftXY[1].data) = Len(LeftXY[2])
        /\ Len(RightXY[1].data) = Len(RightXY[2])
        /\ SplitsInto(Zip(X.data, y), Zip(LeftXY[1].data, LeftXY[2]),
                      Zip(RightXY[1].data, RightXY[2]))

C1_Witness ==
    /\ Returned(retX) /\ Returned(retXY)
    /\ n >= 3
    /\ n_samples(LeftX) >= 1 /\ n_samples(RightX) >= 1
    /\ Len(LeftXY[2]) >= 1 /\ Len(RightXY[2]) >= 1

(* C2, as stated: the left subset holds exactly the rows with              *)
(* X[row, split_feature] <= split_threshold and the right subset exactly   *)
(* the rows with X[row, split_feature] > split_threshold.                  *)
C2_RightIsGreater ==
    Returned(retX) =>
        /\ \A k \in 1..Len(LeftX.data) : Le(LeftX.data[k][SplitCol], t)
        /\ \A k \in 1..Len(RightX.data) : Gt(RightX.data[k][SplitCol], t)
        /\ Len(LeftX.data) = Cardinality(LeftRows)
        /\ Len(RightX.data) =
               Cardinality({i \in 1..n : Gt(X.data[i][SplitCol], t)})

(* C2, amended: the left subset holds exactly the rows with                *)
(* X[row, split_feature] <= split_threshold and the right subset exactly   *)
(* all other rows, i.e. those for which <= does not hold (greater values   *)
(* and NaN); a row whose value equals the threshold is in the left subset  *)
(* and never in the right one.                                             *)
C2_Membership ==
    Returned(retX) =>
        /\ \A k \in 1..Len(LeftX.data) : Le(LeftX.data[k][SplitCol], t)
        /\ \A k \in 1..Len(RightX.data) : ~Le(RightX.data[k][SplitCol], t)
        /\ Len(LeftX.data) = Cardinality(LeftRows)
        /\ Len(RightX.data) = Cardinality(RightRows)
        /\ \A k \in 1..Len(RightX.data) : ~Eq(RightX.data[k][SplitCol], t)
        /\ \A i \in 1..n : Eq(X.data[i][SplitCol], t) =>
               \E k \in 1..Len(LeftX.data) : LeftX.data[k] = X.data[i]

C2_Witness ==
    /\ Returned(retX)
    /\ \E i \in 1..n : Eq(X.data[i][SplitCol], t)
    /\ \E i \in 1..n : Gt(X.data[i][SplitCol], t)
    /\ \E i \in 1..n : IsNaN(X.data[i][SplitCol])
    /\ n_samples(LeftX) >= 1 /\ n_samples(RightX) >= 2

(* C3: order preservation.  Each returned subset is the subsequence of the *)
(* rows of X selected by the mask (left) or by its negation (right), in    *)
(* the order of X; with y, the targets of each subset, which name their    *)
(* original rows, are in ascending row order.                              *)
C3_OrderPreserved ==
    /\ Returned(retX) =>
        /\ LeftX.data = SubSequence(X.data, LeftRows)
        /\ RightX.data = SubSequence(X.data, RightRows)
    /\ Returned(retXY) =>
        \A s \in {1, 2} :
            /\ retXY.returned[s][1].data =
                   SubSequence(X.data, IF s = 1 THEN LeftRows ELSE RightRows)
            /\ \A j, k \in 1..Len(retXY.returned[s][2]) :
                   j < k => retXY.returned[s][2][j] < retXY.returned[s][2][k]

C3_Witness ==
    /\ Returned(retX) /\ Returned(retXY)
    /\ n_samples(LeftX) >= 2 /\ n_samples(RightX) >= 2
    /\ LeftX.data[1] # LeftX.data[2]
    /\ 1 \in RightRows /\ n \in LeftRows

(* C4: row alignment.  With a y of as many rows as X, each returned        *)
(* element is a (features, target) pair of equal length, the target at     *)
(* position k is the y value of the original row the feature row at        *)
(* position k was taken from, and the feature subsets equal those          *)
(* returned for the same X without y.                                      *)
C4_RowAligned ==
    Returned(retXY) =>
        /\ Len(y) = n
        /\ \A s \in {1, 2} :
            LET F == retXY.returned[s][1]
                T == retXY.returned[s][2]
            IN  /\ Len(retXY.returned[s]) = 2
                /\ n_samples(F) = Len(T)
                /\ Len(F.data) = Len(T)
                /\ \A k \in 1..Len(T) :
                       \E i \in 1..n : T[k] = y[i] /\ F.data[k] = X.data[i]
                /\ Returned(retX) => F = retX.returned[s]

C4_Witness ==
    /\ Returned(retXY) /\ Returned(retX)
    /\ n >= 3
    /\ 1 \in RightRows /\ 2 \in LeftRows
    /\ Len(LeftXY[2]) >= 1 /\ Len(RightXY[2]) >= 2
    /\ X.data[1] # X.data[2]

(* C5: idempotence under re-split.  Re-applying the split to the left      *)
(* subset it produced returns that whole subset as the new left and an     *)
(* empty right; re-applying it to the right subset returns an empty left   *)
(* and that whole subset as the new right.                                 *)
C5_Idempotent ==
    ~IsPending(retSub) =>
        /\ Returned(retX)
        /\ Returned(retSub.ret)
        /\ Len(retSub.ret.returned) = 2
        /\ retSub.ret.returned[retSub.side] = retX.returned[retSub.side]
        /\ Empty(retSub.ret.returned[3 - retSub.side])

C5_Witness ==
    /\ ~IsPending(retSub)
    /\ retSub.side = 1
    /\ n_samples(LeftX) >= 2 /\ n_samples(RightX) >= 1
    /\ \E i \in LeftRows : Eq(X.data[i][SplitCol], t)

(* C6, as stated: a split_feature that is negative or >= n_features, or a  *)
(* y whose row count differs from that of X, makes the call raise.         *)
C6_NegativeIndexRaises ==
    /\ (f < 0 \/ f >= m) =>
        /\ ~IsPending(retX) => Raised(retX)
        /\ ~IsPending(retXY) => Raised(retXY)
    /\ Len(y) # n => (~IsPending(retXY) => Raised(retXY))

(* C6, amended: a split_feature outside -n_features .. n_features - 1      *)
(* (a negative index down to -n_features counts from the last column and   *)
(* is valid), or a y whose row count differs from that of X, makes the     *)
(* call raise; a call that raises returns no subsets.                      *)
C6_FailFast ==
    /\ (f < -m \/ f >= m) =>
        /\ ~IsPending(retX) => Raised(retX)
        /\ ~IsPending(retXY) => Raised(retXY)
        /\ IsPending(retSub)
    /\ Len(y) # n => (~IsPending(retXY) => Raised(retXY))

C6_Witness ==
    /\ f < -m /\ m >= 1 /\ n >= 1
    /\ Raised(retX) /\ Raised(retXY)

C9_OneSided ==
    /\ (ValidColumn /\ ~IsPending(retX)) =>
        /\ Returned(retX)
        /\ Len(retX.returned) = 2
        /\ WellFormed(LeftX, m) /\ WellFormed(RightX, m)
        /\ n = 0 => Empty(LeftX) /\ Empty(RightX)
        /\ LeftRows = 1..n => LeftX = X /\ Empty(RightX)
        /\ RightRows = 1..n => Empty(LeftX) /\ RightX = X
    /\ (ValidColumn /\ Len(y) = n /\ ~IsPending(retXY)) =>
        /\ Returned(retXY)
        /\ Len(retXY.returned) = 2
        /\ WellFormed(LeftXY[1], m) /\ WellFormed(RightXY[1], m)
        /\ LeftRows = 1..n =>
               LeftXY = <<X, y>> /\ Empty(RightXY[1]) /\ RightXY[2] = <<>>
        /\ RightRows = 1..n =>
               Empty(LeftXY[1]) /\ LeftXY[2] = <<>> /\ RightXY = <<X, y>>

C9_Witness ==
    /\ Returned(retX) /\ Returned(retXY)
    /\ n >= 2 /\ m >= 2
    /\ LeftRows = 1..n
    /\ Empty(RightX)

-----------------------------------------------------------------------------
(* Properties of TreeNode *)

IsAbsent(v) == "none" \in DOMAIN v

\* the shape the claim asks of a node: children absent, or exactly two
\* children that are nodes of that shape themselves
RECURSIVE BinaryShaped(_)
BinaryShaped(id) ==
    \/ IsAbsent(nodes[id].children)
    \/ /\ Len(nodes[id].children.some) = 2
       /\ \A k \in 1..2 :
              /\ nodes[id].children.some[k] \in 1..Len(nodes)
              /\ BinaryShaped(nodes[id].children.some[k])

\* the children argument of a call is omitted, or a pair of nodes of that shape
PassedBinaryChildren(args) ==
    \/ args.children = Omitted
    \/ /\ args.children # Omitted
       /\ Len(args.children.given.some) = 2
       /\ \A k \in 1..2 : BinaryShaped(args.children.given.some[k])

(* C7, as stated: every constructed node has children that are absent or   *)
(* exactly two nodes, each of the same shape recursively.                  *)
C7_AlwaysBinary ==
    \A id \in 1..Len(nodes) : BinaryShaped(id)

(* C7, amended: the constructor stores the children argument as passed,    *)
(* without validating it.  A node constructed with children omitted or     *)
(* with a pair of nodes of the binary shape has the binary shape; a node   *)
(* constructed with any other collection (empty, one element) keeps that   *)
(* collection and does not have it.                                        *)
C7_BinaryIfPassedBinary ==
    \A k \in 1..Len(calls) :
        /\ Returned(calls[k].ret)
        /\ calls[k].ret.returned \in 1..Len(nodes)
        /\ PassedBinaryChildren(calls[k].args)
               <=> BinaryShaped(calls[k].ret.returned)

C7_Witness ==
    /\ Len(nodes) = 3
    /\ ~IsAbsent(nodes[3].children)
    /\ nodes[3].children.some = <<1, 2>>
    /\ BinaryShaped(3)
    /\ IsAbsent(nodes[1].children) /\ IsAbsent(nodes[2].children)

(* C10: construction is unvalidated storage.  Every constructor call       *)
(* returns a new node, for any combination of arguments; the node reads    *)
(* back the values passed, an omitted depth reads 0 and an omitted         *)
(* estimator, children or split reads absent; the nodes constructed        *)
(* earlier keep their values.                                              *)
C10_StoresArguments ==
    /\ Len(nodes) = Len(calls)
    /\ \A k \in 1..Len(calls) :
        LET a == calls[k].args
        IN  /\ calls[k].ret = Return(k)
            /\ IF a.depth = Omitted THEN nodes[k].depth = 0
                                    ELSE nodes[k].depth = a.depth.given
            /\ IF a.estimator = Omitted THEN IsAbsent(nodes[k].estimator)
                                        ELSE nodes[k].estimator = a.estimator.given
            /\ IF a.children = Omitted THEN IsAbsent(nodes[k].children)
                                       ELSE nodes[k].children = a.children.given
            /\ IF a.split = Omitted THEN IsAbsent(nodes[k].split)
                                    ELSE nodes[k].split = a.split.given

C10_Witness ==
    /\ Len(nodes) = 3
    /\ calls[1].args = [depth |-> Omitted, estimator |-> Omitted,
                        children |-> Omitted, split |-> Omitted]
    /\ calls[2].args.children # Omitted /\ calls[2].args.split = Omitted
    /\ calls[3].args.children = Omitted /\ calls[3].args.split # Omitted
    /\ calls[3].args.depth # Omitted
    /\ IsAbsent(nodes[2].split) /\ ~IsAbsent(nodes[2].children)
    /\ IsAbsent(nodes[3].children) /\ ~IsAbsent(nodes[3].split)

=============================================================================
